---- MODULE Spec2Model ----
(***************************************************************************)
(* A model of get_rates.py: main() fetches the nominal and the real         *)
(* Treasury yield feeds, extracts the last entry's 5/10/20/30-year rates    *)
(* and prints them as CSV.                                                  *)
(*                                                                          *)
(* Python strings are modelled as sequences of one-character strings, so    *)
(* that str.endswith, str.strip, Decimal(str) and str(Decimal) are computed *)
(* character by character.  Python objects are records; the value None and  *)
(* an unbound name are the records None and Unbound.                        *)
(***************************************************************************)
EXTENDS Integers, Sequences, FiniteSets, TLC

VARIABLES
    network,        \* what the Treasury site answers for each feed URL
    pc,             \* the statement main()/get_rates() is about to execute
    rt,             \* get_rates' parameter rt of the call in progress
    response,       \* get_rates' local: requests.get(...)'s return value
    root,           \* get_rates' local: the parsed document's root Element
    last_elt,       \* get_rates' local
    content,        \* get_rates' local
    properties,     \* get_rates' local
    nominal_rates,  \* main's local
    real_rates,     \* main's local
    stdout,         \* the lines print() has written, in order
    requests_sent,  \* per feed, how many HTTP GETs were issued
    error           \* the exception that ended the run, or NoError

vars == <<network, pc, rt, response, root, last_elt, content, properties,
          nominal_rates, real_rates, stdout, requests_sent, error>>

----------------------------------------------------------------------------
(* Python values *)

None == [py |-> "None"]
Unbound == [py |-> "unbound"]
IsNone(v) == "py" \in DOMAIN v /\ v.py = "None"
IsObject(v) == "py" \notin DOMAIN v

NoError == "none"

\* RatesType(Enum): member -> value
NOMINAL == "NOMINAL"
REAL == "REAL"
RatesType == {NOMINAL, REAL}
RatesTypeValue(k) == IF k = NOMINAL THEN <<"B", "C", "_">> ELSE <<"T", "C", "_">>

----------------------------------------------------------------------------
(* str methods *)

Whitespace == {" ", "\n"}
Digits == {"0", "1", "2", "3", "4", "5", "6", "7", "8", "9"}

\* str.endswith
EndsWith(s, suffix) ==
    /\ Len(s) >= Len(suffix)
    /\ SubSeq(s, Len(s) - Len(suffix) + 1, Len(s)) = suffix

RECURSIVE lstrip(_)
lstrip(s) == IF s # <<>> /\ Head(s) \in Whitespace THEN lstrip(Tail(s)) ELSE s

RECURSIVE rstrip(_)
rstrip(s) ==
    IF s # <<>> /\ s[Len(s)] \in Whitespace
    THEN rstrip(SubSeq(s, 1, Len(s) - 1))
    ELSE s

\* str.strip
strip(s) == rstrip(lstrip(s))

----------------------------------------------------------------------------
(* decimal.Decimal: construction from a string, and str().  A Decimal is    *)
(* CPython's triple (_sign, _int, _exp): the value is                       *)
(* (-1)^sign * int * 10^exp, int being a digit string without leading       *)
(* zeros.  Only the numeric-string syntax sign? digits? (. digits?)? is     *)
(* modelled; the input texts hold no exponent, underscore, Inf or NaN.      *)

\* main(): decimal.getcontext().prec = 6.  The context precision governs
\* arithmetic results; Decimal(str) reads no context and keeps every digit.
prec == 6

RECURSIVE StripLeadingZeros(_)
StripLeadingZeros(ds) ==
    IF Len(ds) > 1 /\ Head(ds) = "0" THEN StripLeadingZeros(Tail(ds)) ELSE ds

IndexOfDot(s) ==
    IF \E i \in 1..Len(s) : s[i] = "."
    THEN CHOOSE i \in 1..Len(s) : s[i] = "." /\ \A j \in 1..(i - 1) : s[j] # "."
    ELSE 0

AllDigits(s) == \A i \in 1..Len(s) : s[i] \in Digits

Decimal(value) ==
    LET s == strip(value)
        signed == s # <<>> /\ Head(s) \in {"+", "-"}
        sign == IF s # <<>> /\ Head(s) = "-" THEN 1 ELSE 0
        body == IF signed THEN Tail(s) ELSE s
        dot == IndexOfDot(body)
        intpart == IF dot = 0 THEN body ELSE SubSeq(body, 1, dot - 1)
        fracpart == IF dot = 0 THEN <<>> ELSE SubSeq(body, dot + 1, Len(body))
    IN  IF AllDigits(intpart) /\ AllDigits(fracpart)
           /\ Len(intpart) + Len(fracpart) >= 1
        THEN [ok |-> TRUE,
              value |-> [sign |-> sign,
                         int |-> StripLeadingZeros(intpart \o fracpart),
                         exp |-> 0 - Len(fracpart)]]
        ELSE [ok |-> FALSE, error |-> "InvalidOperation"]

DigitChar == <<"0", "1", "2", "3", "4", "5", "6", "7", "8", "9">>

RECURSIVE NatStr(_)
NatStr(n) == IF n < 10 THEN <<DigitChar[n + 1]>>
             ELSE NatStr(n \div 10) \o <<DigitChar[(n % 10) + 1]>>

\* "%+d" % n
SignedStr(n) == IF n < 0 THEN <<"-">> \o NatStr(0 - n) ELSE <<"+">> \o NatStr(n)

Zeros(n) == [i \in 1..n |-> "0"]

\* Decimal.__str__
DecimalStr(d) ==
    LET sign == IF d.sign = 1 THEN <<"-">> ELSE <<>>
        leftdigits == d.exp + Len(d.int)
        dotplace == IF d.exp <= 0 /\ leftdigits > -6 THEN leftdigits ELSE 1
        intpart == IF dotplace <= 0 THEN <<"0">>
                   ELSE IF dotplace >= Len(d.int)
                        THEN d.int \o Zeros(dotplace - Len(d.int))
                        ELSE SubSeq(d.int, 1, dotplace)
        fracpart == IF dotplace <= 0 THEN <<".">> \o Zeros(0 - dotplace) \o d.int
                    ELSE IF dotplace >= Len(d.int) THEN <<>>
                         ELSE <<".">> \o SubSeq(d.int, dotplace + 1, Len(d.int))
        exp == IF leftdigits = dotplace THEN <<>>
               ELSE <<"E">> \o SignedStr(leftdigits - dotplace)
    IN  sign \o intpart \o fracpart \o exp

----------------------------------------------------------------------------
(* xml.etree.ElementTree.Element: [tag, children] and, unless its text is   *)
(* None, text.                                                              *)

Elem(tag, children) == [tag |-> tag, children |-> children]
ElemText(tag, text) == [tag |-> tag, text |-> text, children |-> <<>>]

\* def find_all_ending_with(e, tag)
find_all_ending_with(e, tag) ==
    SelectSeq(e.children, LAMBDA child : EndsWith(child.tag, tag))

\* find_only_one_ending_with without its uniqueness check: the first match
find_first_ending_with(e, tag) ==
    LET child_elts == find_all_ending_with(e, tag)
    IN  IF Len(child_elts) >= 1
        THEN [ok |-> TRUE, value |-> child_elts[1]]
        ELSE [ok |-> FALSE, error |-> "AssertionError"]

\* def find_only_one_ending_with(e, tag): the assert, then child_elts[0]
find_only_one_ending_with(e, tag) ==
    LET child_elts == find_all_ending_with(e, tag)
    IN  IF Len(child_elts) = 1
        THEN [ok |-> TRUE, value |-> child_elts[1]]
        ELSE [ok |-> FALSE, error |-> "AssertionError"]

\* get_last_entry returning the first entry instead of the last
get_first_entry(r) ==
    LET entries == find_all_ending_with(r, <<"e", "n", "t", "r", "y">>)
    IN  IF Len(entries) > 0 THEN entries[1] ELSE None

\* def get_last_entry(root)
get_last_entry(r) ==
    LET entries == find_all_ending_with(r, <<"e", "n", "t", "r", "y">>)
    IN  IF Len(entries) > 0 THEN entries[Len(entries)] ELSE None

\* def extract_stripped_text(e)
extract_stripped_text(e) ==
    IF IsNone(e) THEN <<>>
    ELSE IF "text" \notin DOMAIN e THEN <<>>
    ELSE strip(e.text)

\* extract_decimal reading a blank text as zero
extract_decimal_or_zero(e) ==
    IF extract_stripped_text(e) = <<>>
    THEN [ok |-> TRUE, value |-> [sign |-> 0, int |-> <<"0">>, exp |-> 0]]
    ELSE Decimal(extract_stripped_text(e))

\* def extract_decimal(e)
extract_decimal(e) == Decimal(extract_stripped_text(e))

----------------------------------------------------------------------------
(* class Rates.  An instance is the record of the attributes that have been *)
(* assigned: __init__ assigns rt, and one attribute per matching child.     *)

setattr(self, name, v) ==
    [a \in (DOMAIN self) \cup {name} |-> IF a = name THEN v ELSE self[a]]

S_DATE == <<"D", "A", "T", "E">>
S_5YEAR == <<"5", "Y", "E", "A", "R">>
S_10YEAR == <<"1", "0", "Y", "E", "A", "R">>
S_20YEAR == <<"2", "0", "Y", "E", "A", "R">>
S_30YEAR == <<"3", "0", "Y", "E", "A", "R">>

\* the if/elif chain with the 10YEAR and 20YEAR assignments exchanged
RouteOfExchanged(child_tag) ==
    IF EndsWith(child_tag, S_DATE) THEN "date"
    ELSE IF EndsWith(child_tag, S_5YEAR) THEN "r5y"
    ELSE IF EndsWith(child_tag, S_10YEAR) THEN "r20y"
    ELSE IF EndsWith(child_tag, S_20YEAR) THEN "r10y"
    ELSE IF EndsWith(child_tag, S_30YEAR) THEN "r30y"
    ELSE "ignored"

\* the attribute the if/elif chain of __init__ routes a child tag to
RouteOf(child_tag) ==
    IF EndsWith(child_tag, S_DATE) THEN "date"
    ELSE IF EndsWith(child_tag, S_5YEAR) THEN "r5y"
    ELSE IF EndsWith(child_tag, S_10YEAR) THEN "r10y"
    ELSE IF EndsWith(child_tag, S_20YEAR) THEN "r20y"
    ELSE IF EndsWith(child_tag, S_30YEAR) THEN "r30y"
    ELSE "ignored"

\* the for loop of __init__, from child i on
RECURSIVE RatesLoop(_, _, _)
RatesLoop(children, i, self) ==
    IF i > Len(children) THEN [ok |-> TRUE, value |-> self]
    ELSE LET child == children[i]
             attr == RouteOf(child.tag)
         IN  IF attr = "ignored" THEN RatesLoop(children, i + 1, self)
             ELSE IF attr = "date"
             THEN RatesLoop(children, i + 1,
                            setattr(self, "date", extract_stripped_text(child)))
             ELSE LET d == extract_decimal(child)
                  IN  IF d.ok
                      THEN RatesLoop(children, i + 1, setattr(self, attr, d.value))
                      ELSE [ok |-> FALSE, error |-> d.error]

\* Rates(properties, rt)
Rates(props, k) == RatesLoop(props.children, 1, [rt |-> k])

Attrs == <<"date", "r5y", "r10y", "r20y", "r30y">>

\* the text before the value on the line print_as_csv writes for attribute i
Label(prefix, i) ==
    IF i = 1 THEN <<"N", "E", "W", "_", "D", "A", "T", "E", ",">>
    ELSE prefix
         \o (CASE i = 2 -> S_5YEAR [] i = 3 -> S_10YEAR
               [] i = 4 -> S_20YEAR [] OTHER -> S_30YEAR)
         \o <<",">>

\* the f-string's {value}
Format(attr, v) == IF attr = "date" THEN v ELSE DecimalStr(v)

HeaderLine == <<"N", "A", "M", "E", ",", "V", "A", "L", "U", "E">>

\* how many of the five value lines are written before an attribute is
\* found missing (5 when none is)
RECURSIVE Printable(_, _)
Printable(self, i) ==
    IF i > Len(Attrs) \/ Attrs[i] \notin DOMAIN self THEN i - 1
    ELSE Printable(self, i + 1)

\* Rates.print_as_csv: the lines written and whether it returned
print_as_csv(self) ==
    LET prefix == RatesTypeValue(self.rt)
        n == Printable(self, 1)
        lines == <<HeaderLine>>
                 \o [i \in 1..n |-> Label(prefix, i) \o Format(Attrs[i], self[Attrs[i]])]
    IN  IF n = Len(Attrs)
        THEN [ok |-> TRUE, lines |-> lines]
        ELSE [ok |-> FALSE, lines |-> lines, error |-> "AttributeError"]

----------------------------------------------------------------------------
(* The HTTP exchange.  requests.get either raises (a transport error) or    *)
(* returns a Response with a status code and a body; the body either is no  *)
(* well-formed XML or denotes a document with a root Element.               *)

TransportError == [raises |-> TRUE]
HttpResponse(status_code, body) ==
    [raises |-> FALSE, status_code |-> status_code, content |-> body]
Malformed == [wellformed |-> FALSE]
Document(r) == [wellformed |-> TRUE, root |-> r]

\* requests.get(url, timeout=60): no raise_for_status(), any status returns
requests_get(k) ==
    IF network[k].raises THEN [ok |-> FALSE, error |-> "ConnectionError"]
    ELSE [ok |-> TRUE, value |-> network[k]]

\* ET.fromstring(response.content)
fromstring(body) ==
    IF body.wellformed THEN [ok |-> TRUE, value |-> body.root]
    ELSE [ok |-> FALSE, error |-> "ParseError"]

----------------------------------------------------------------------------
(* main() and get_rates(), statement by statement.  An exception is never   *)
(* caught: it leaves pc at the statement that raised and ends the run.      *)

Running == error = NoError

Raise(e) ==
    /\ error' = e
    /\ UNCHANGED <<pc, rt, nominal_rates, real_rates>>

\* main printing the nominal rates as soon as they are retrieved
ReturnAndPrint(value) ==
    /\ response' = Unbound /\ root' = Unbound /\ last_elt' = Unbound
    /\ content' = Unbound /\ properties' = Unbound
    /\ error' = NoError
    /\ IF rt = NOMINAL
       THEN /\ nominal_rates' = value
            /\ pc' = "print_nominal"
            /\ UNCHANGED <<rt, real_rates>>
       ELSE /\ real_rates' = value
            /\ pc' = "print_real"
            /\ UNCHANGED <<rt, nominal_rates>>

\* return value: main binds nominal_rates and calls get_rates for the real
\* feed, or binds real_rates and goes on to print
Return(value) ==
    /\ response' = Unbound /\ root' = Unbound /\ last_elt' = Unbound
    /\ content' = Unbound /\ properties' = Unbound
    /\ error' = NoError
    /\ IF rt = NOMINAL
       THEN /\ nominal_rates' = value
            /\ rt' = REAL
            /\ pc' = "requests_get"
            /\ UNCHANGED real_rates
       ELSE /\ real_rates' = value
            /\ pc' = "print_nominal"
            /\ UNCHANGED <<rt, nominal_rates>>

\* response = requests.get(url, timeout=60)
RequestsGet ==
    /\ Running /\ pc = "requests_get"
    /\ requests_sent' = [requests_sent EXCEPT ![rt] = @ + 1]
    /\ LET r == requests_get(rt)
       IN  IF r.ok
           THEN /\ response' = r.value
                /\ pc' = "fromstring"
                /\ UNCHANGED <<rt, nominal_rates, real_rates, error>>
           ELSE /\ Raise(r.error)
                /\ UNCHANGED response
    /\ UNCHANGED <<network, root, last_elt, content, properties, stdout>>

\* root = ET.fromstring(response.content)
FromString ==
    /\ Running /\ pc = "fromstring"
    /\ LET r == fromstring(response.content)
       IN  IF r.ok
           THEN /\ root' = r.value
                /\ pc' = "get_last_entry"
                /\ UNCHANGED <<rt, nominal_rates, real_rates, error>>
           ELSE /\ Raise(r.error)
                /\ UNCHANGED root
    /\ UNCHANGED <<network, response, last_elt, content, properties, stdout,
                   requests_sent>>

\* last_elt = get_last_entry(root); if last_elt is None: return None
GetLastEntry ==
    /\ Running /\ pc = "get_last_entry"
    /\ LET e == get_last_entry(root)
       IN  IF IsNone(e)
           THEN Return(None)
           ELSE /\ last_elt' = e
                /\ pc' = "content"
                /\ UNCHANGED <<rt, response, root, content, properties,
                               nominal_rates, real_rates, error>>
    /\ UNCHANGED <<network, stdout, requests_sent>>

\* content = find_only_one_ending_with(last_elt, "content")
FindContent ==
    /\ Running /\ pc = "content"
    /\ LET r == find_only_one_ending_with(last_elt, <<"c", "o", "n", "t", "e", "n", "t">>)
       IN  IF r.ok
           THEN /\ content' = r.value
                /\ pc' = "properties"
                /\ UNCHANGED <<rt, nominal_rates, real_rates, error>>
           ELSE /\ Raise(r.error)
                /\ UNCHANGED content
    /\ UNCHANGED <<network, response, root, last_elt, properties, stdout,
                   requests_sent>>

\* properties = find_only_one_ending_with(content, "properties")
FindProperties ==
    /\ Running /\ pc = "properties"
    /\ LET r == find_only_one_ending_with(content, <<"p", "r", "o", "p", "e", "r", "t", "i", "e", "s">>)
       IN  IF r.ok
           THEN /\ properties' = r.value
                /\ pc' = "Rates"
                /\ UNCHANGED <<rt, nominal_rates, real_rates, error>>
           ELSE /\ Raise(r.error)
                /\ UNCHANGED properties
    /\ UNCHANGED <<network, response, root, last_elt, content, stdout,
                   requests_sent>>

\* return Rates(properties, rt)
BuildRates ==
    /\ Running /\ pc = "Rates"
    /\ LET r == Rates(properties, rt)
       IN  IF r.ok
           THEN Return(r.value)
           ELSE /\ Raise(r.error)
                /\ UNCHANGED <<response, root, last_elt, content, properties>>
    /\ UNCHANGED <<network, stdout, requests_sent>>

\* if rates is not None: rates.print_as_csv(), then go on at `next`
PrintIfNotNone(rates, next) ==
    IF IsNone(rates)
    THEN /\ pc' = next
         /\ UNCHANGED <<stdout, error>>
    ELSE LET r == print_as_csv(rates)
         IN  /\ stdout' = stdout \o r.lines
             /\ IF r.ok
                THEN pc' = next /\ UNCHANGED error
                ELSE error' = r.error /\ UNCHANGED pc

\* the first print statement testing nominal_rates but printing real_rates
PrintRealTwice ==
    /\ Running /\ pc = "print_nominal"
    /\ IF IsNone(nominal_rates)
       THEN pc' = "print_real" /\ UNCHANGED <<stdout, error>>
       ELSE PrintIfNotNone(real_rates, "print_real")
    /\ UNCHANGED <<network, rt, response, root, last_elt, content, properties,
                   nominal_rates, real_rates, requests_sent>>

\* if nominal_rates is not None: nominal_rates.print_as_csv()
PrintNominal ==
    /\ Running /\ pc = "print_nominal"
    /\ PrintIfNotNone(nominal_rates, "print_real")
    /\ UNCHANGED <<network, rt, response, root, last_elt, content, properties,
                   nominal_rates, real_rates, requests_sent>>

\* if real_rates is not None: real_rates.print_as_csv()
PrintReal ==
    /\ Running /\ pc = "print_real"
    /\ PrintIfNotNone(real_rates, "done")
    /\ UNCHANGED <<network, rt, response, root, last_elt, content, properties,
                   nominal_rates, real_rates, requests_sent>>

Next ==
    \/ RequestsGet
    \/ FromString
    \/ GetLastEntry
    \/ FindContent
    \/ FindProperties
    \/ BuildRates
    \/ PrintNominal
    \/ PrintReal

\* main() up to its first get_rates call, for a given answer of the site
Start(net) ==
    /\ network = net
    /\ pc = "requests_get"
    /\ rt = NOMINAL
    /\ response = Unbound /\ root = Unbound /\ last_elt = Unbound
    /\ content = Unbound /\ properties = Unbound
    /\ nominal_rates = Unbound /\ real_rates = Unbound
    /\ stdout = <<>>
    /\ requests_sent = [k \in RatesType |-> 0]
    /\ error = NoError

----------------------------------------------------------------------------
(* The answers of the site the model is run on.                             *)

\* the longest list of children given to a feed's root
MaxRootChildren == 3
\* the longest list of children given to a properties element
MaxFields == 6

StatusCodes == {200, 404}

SeqsUpTo(S, n) == UNION {[1..m -> S] : m \in 0..n}

T_feed == <<"{", "a", "}", "f", "e", "e", "d">>
T_entry == <<"{", "a", "}", "e", "n", "t", "r", "y">>
T_title == <<"{", "a", "}", "t", "i", "t", "l", "e">>
T_source == <<"{", "a", "}", "s", "o", "u", "r", "c", "e">>
T_content == <<"{", "a", "}", "c", "o", "n", "t", "e", "n", "t">>
T_properties == <<"{", "m", "}", "p", "r", "o", "p", "e", "r", "t", "i", "e", "s">>

\* a properties element with the five fields, namespaced as in the feeds
Props(date, v5, v10, v20, v30) ==
    Elem(T_properties,
         << ElemText(<<"{", "d", "}", "N", "E", "W", "_", "D", "A", "T", "E">>, date),
            ElemText(<<"{", "d", "}", "B", "C", "_", "5", "Y", "E", "A", "R">>, v5),
            ElemText(<<"{", "d", "}", "B", "C", "_", "7", "Y", "E", "A", "R">>, <<"9", ".", "9", "9">>),
            ElemText(<<"{", "d", "}", "B", "C", "_", "1", "0", "Y", "E", "A", "R">>, v10),
            ElemText(<<"{", "d", "}", "B", "C", "_", "2", "0", "Y", "E", "A", "R">>, v20),
            ElemText(<<"{", "d", "}", "B", "C", "_", "3", "0", "Y", "E", "A", "R">>, v30),
            ElemText(<<"{", "d", "}", "B", "C", "_", "3", "0", "Y", "E", "A", "R", "D", "I", "S", "P", "L", "A", "Y">>, v30) >>)

PropsA == Props(<<"2", "0", "2", "4", "-", "0", "1", "-", "0", "2">>, <<"4", ".", "5", "5">>, <<"4", ".", "2", "0">>, <<"4", ".", "1", "0">>, <<"4", ".", "3", "5">>)
PropsB == Props(<<"2", "0", "2", "4", "-", "0", "1", "-", "0", "3">>, <<"1", ".", "5">>, <<"1", ".", "6">>, <<"1", ".", "7">>, <<"1", ".", "8">>)
PropsC == Props(<<"2", "0", "2", "4", "-", "0", "1", "-", "0", "4">>, <<"2", ".", "5">>, <<"2", ".", "6">>, <<"2", ".", "7">>, <<"2", ".", "8">>)

Title == ElemText(T_title, <<"R", "a", "t", "e", "s">>)

\* an entry element, under a given tag, around given children of its content
Entry(tag, content_children) ==
    Elem(tag, <<Title, Elem(T_content, content_children)>>)

\* the children a feed's root is given
RootChildPool ==
    { Title,
      Entry(T_entry, <<PropsA>>),
      \* no namespace on the tags
      Elem(<<"e", "n", "t", "r", "y">>, <<Elem(<<"c", "o", "n", "t", "e", "n", "t">>, <<PropsB>>)>>),
      \* an entry that is no child of the root
      Elem(T_source, <<Entry(T_entry, <<PropsC>>)>>),
      \* no content child, and two of them
      Elem(T_entry, <<Title>>),
      Elem(T_entry, <<Elem(T_content, <<PropsA>>), Elem(T_content, <<PropsB>>)>>),
      \* no properties child, and two of them
      Entry(T_entry, <<>>),
      Entry(T_entry, <<PropsA, PropsB>>) }

Feed(children) == Document(Elem(T_feed, children))

StructuralResponses ==
    { HttpResponse(s, Feed(cs)) :
        s \in StatusCodes, cs \in SeqsUpTo(RootChildPool, MaxRootChildren) }

\* the fields a properties element is given: present five, an ignored tag,
\* a second 5YEAR with more digits, and texts that are missing or blank
SampleFields ==
    << ElemText(<<"{", "d", "}", "N", "E", "W", "_", "D", "A", "T", "E">>, <<"2", "0", "2", "4", "-", "0", "1", "-", "0", "2">>),
       ElemText(<<"{", "d", "}", "B", "C", "_", "5", "Y", "E", "A", "R">>, <<"4", ".", "5", "5">>),
       ElemText(<<"{", "d", "}", "B", "C", "_", "1", "0", "Y", "E", "A", "R">>, <<"4", ".", "2", "0">>),
       ElemText(<<"{", "d", "}", "B", "C", "_", "2", "0", "Y", "E", "A", "R">>, <<"4", ".", "1", "0">>),
       ElemText(<<"{", "d", "}", "B", "C", "_", "3", "0", "Y", "E", "A", "R">>, <<"4", ".", "3", "5">>),
       ElemText(<<"{", "d", "}", "B", "C", "_", "3", "0", "Y", "E", "A", "R", "D", "I", "S", "P", "L", "A", "Y">>, <<"0">>),
       ElemText(<<"T", "C", "_", "5", "Y", "E", "A", "R">>, <<" ", "4", ".", "1", "2", "3", "4", "5", "6", "7", "8", "9", "\n">>),
       Elem(<<"{", "d", "}", "B", "C", "_", "1", "0", "Y", "E", "A", "R">>, <<>>),
       ElemText(<<"{", "d", "}", "B", "C", "_", "2", "0", "Y", "E", "A", "R">>, <<" ", "\n">>),
       ElemText(<<"{", "d", "}", "B", "C", "_", "3", "0", "Y", "E", "A", "R">>, <<>>),
       Elem(<<"{", "d", "}", "N", "E", "W", "_", "D", "A", "T", "E">>, <<>>),
       ElemText(<<"N", "E", "W", "_", "D", "A", "T", "E">>, <<" ", " ">>) >>

RECURSIVE Ascending(_)
Ascending(I) ==
    IF I = {} THEN <<>>
    ELSE LET m == CHOOSE i \in I : \A j \in I : i <= j
         IN  <<SampleFields[m]>> \o Ascending(I \ {m})

Reverse(s) == [i \in 1..Len(s) |-> s[Len(s) + 1 - i]]

\* every choice of at most MaxFields sample fields, in either order
FieldLists ==
    LET chosen == {I \in SUBSET (1..Len(SampleFields)) : Cardinality(I) <= MaxFields}
    IN  {Ascending(I) : I \in chosen} \cup {Reverse(Ascending(I)) : I \in chosen}

ExtractionResponses ==
    { HttpResponse(200, Feed(<<Entry(T_entry, <<Elem(T_properties, fs)>>)>>)) :
        fs \in FieldLists }

GoodResponse == HttpResponse(200, Feed(<<Title, Entry(T_entry, <<PropsB>>)>>))
EmptyFeedResponse == HttpResponse(200, Feed(<<Title>>))

\* one answer of each kind of outcome
BasicResponses ==
    { TransportError,
      HttpResponse(200, Malformed),
      HttpResponse(404, Malformed),
      EmptyFeedResponse,
      HttpResponse(404, Feed(<<>>)),
      GoodResponse,
      \* no 30YEAR field
      HttpResponse(200, Feed(<<Entry(T_entry,
          <<Elem(T_properties, SubSeq(SampleFields, 1, 4))>>)>>)),
      \* a blank 20YEAR
      HttpResponse(200, Feed(<<Entry(T_entry,
          <<Elem(T_properties, SubSeq(SampleFields, 9, 9))>>)>>)),
      \* no content
      HttpResponse(200, Feed(<<Elem(T_entry, <<Title>>)>>)) }

Serving(k, r, other) == [x \in RatesType |-> IF x = k THEN r ELSE other]

\* runs of main() over feeds of every structure, and over every pair of
\* outcomes of the two retrievals
Init ==
    \/ \E k \in RatesType, r \in StructuralResponses,
          other \in {GoodResponse, EmptyFeedResponse} :
           Start(Serving(k, r, other))
    \/ \E r \in BasicResponses, other \in BasicResponses :
           Start(Serving(NOMINAL, r, other))

Spec == Init /\ [][Next]_vars

\* runs of main() over last entries of every field list
InitExtraction ==
    \E k \in RatesType, r \in ExtractionResponses,
       other \in {GoodResponse, EmptyFeedResponse} :
        Start(Serving(k, r, other))

SpecExtraction == InitExtraction /\ [][Next]_vars

----------------------------------------------------------------------------
(* Vocabulary of the properties *)

InGetRates == pc \in {"requests_get", "fromstring", "get_last_entry",
                      "content", "properties", "Rates"}
Failed == error # NoError

\* get_rates for feed k has returned, and what it returned
Result(k) == IF k = NOMINAL THEN nominal_rates ELSE real_rates
Returned(k) == Result(k) # Unbound
ReturnedRates(k) == IsObject(Result(k))
ReturnedNone(k) == IsNone(Result(k))

\* get_rates for feed k ended in an exception
Raised(k) == Failed /\ InGetRates /\ rt = k

\* the positions of the children of e whose tag ends with suffix
Matching(e, suffix) ==
    {i \in 1..Len(e.children) : EndsWith(e.children[i].tag, suffix)}
Last(I) == CHOOSE i \in I : \A j \in I : j <= i

IsRoot(k) == ~network[k].raises /\ network[k].content.wellformed
RootOf(k) == network[k].content.root

\* a rate set with all five fields
Complete(rates) == \A i \in 1..Len(Attrs) : Attrs[i] \in DOMAIN rates

----------------------------------------------------------------------------
\* C4: get_last_entry returns the last of the root's direct children whose
\* tag ends in "entry", namespaced or not; it returns None only when the root
\* has no such child, and what it returns is always a child of the root,
\* never an entry nested deeper.
C4_LastEntry ==
    /\ pc \in {"content", "properties", "Rates"} =>
          /\ Matching(root, <<"e", "n", "t", "r", "y">>) # {}
          /\ last_elt = root.children[Last(Matching(root, <<"e", "n", "t", "r", "y">>))]
    /\ \A k \in RatesType :
          ReturnedNone(k) => IsRoot(k) /\ Matching(RootOf(k), <<"e", "n", "t", "r", "y">>) = {}

\* an entry under a namespaced tag, then one under a bare tag, then an
\* element that holds a nested entry: the second is returned
C4_Witness ==
    /\ pc = "content" /\ Len(root.children) = 3
    /\ root.children[1].tag = T_entry
    /\ root.children[2].tag = <<"e", "n", "t", "r", "y">>
    /\ root.children[3].tag = T_source
    /\ Matching(root.children[3], <<"e", "n", "t", "r", "y">>) # {}
    /\ last_elt = root.children[2]

\* C5: find_only_one_ending_with raises AssertionError when the children
\* matching the suffix number zero or more than one, and returns the child
\* when exactly one matches; so get_rates ends in that error, returning
\* nothing, unless the last entry has exactly one content child and that
\* child exactly one properties child.
C5_OnlyOne ==
    [][/\ (pc = "content" /\ ~Failed) =>
             IF Cardinality(Matching(last_elt, <<"c", "o", "n", "t", "e", "n", "t">>)) = 1
             THEN /\ content' = last_elt.children[Last(Matching(last_elt, <<"c", "o", "n", "t", "e", "n", "t">>))]
                  /\ pc' = "properties" /\ error' = NoError
             ELSE /\ error' = "AssertionError" /\ pc' = pc
                  /\ nominal_rates' = nominal_rates /\ real_rates' = real_rates
       /\ (pc = "properties" /\ ~Failed) =>
             IF Cardinality(Matching(content, <<"p", "r", "o", "p", "e", "r", "t", "i", "e", "s">>)) = 1
             THEN /\ properties' = content.children[Last(Matching(content, <<"p", "r", "o", "p", "e", "r", "t", "i", "e", "s">>))]
                  /\ pc' = "Rates" /\ error' = NoError
             ELSE /\ error' = "AssertionError" /\ pc' = pc
                  /\ nominal_rates' = nominal_rates /\ real_rates' = real_rates
      ]_vars

\* the assertion fails on two properties children of the one content child
C5_Witness ==
    /\ error = "AssertionError" /\ pc = "properties"
    /\ Cardinality(Matching(last_elt, <<"c", "o", "n", "t", "e", "n", "t">>)) = 1
    /\ Cardinality(Matching(content, <<"p", "r", "o", "p", "e", "r", "t", "i", "e", "s">>)) = 2
    /\ ~Returned(rt)

\* C10: main prints nothing before both get_rates calls have returned, and
\* the real call starts only after the nominal call has returned; so a run
\* in which a retrieval raises ends with nothing on standard output, also
\* when the nominal retrieval had returned a complete rate set.
C10_NoOutputBeforeBoth ==
    /\ stdout # <<>> => Returned(NOMINAL) /\ Returned(REAL)
    /\ (requests_sent[REAL] > 0 \/ rt = REAL) => Returned(NOMINAL)
    /\ \A k \in RatesType : Raised(k) => stdout = <<>>

\* the nominal rate set is complete, the real retrieval raised
C10_Witness ==
    /\ Raised(REAL)
    /\ ReturnedRates(NOMINAL) /\ Complete(nominal_rates)
    /\ stdout = <<>>

----------------------------------------------------------------------------
(* The CSV text the properties speak of, written out literally *)

PrefixText(k) == IF k = NOMINAL THEN <<"B", "C", "_">> ELSE <<"T", "C", "_">>

\* the block of a rate set of kind k with the given date and value texts
Block(k, date, v5, v10, v20, v30) ==
    << <<"N", "A", "M", "E", ",", "V", "A", "L", "U", "E">>,
       <<"N", "E", "W", "_", "D", "A", "T", "E", ",">> \o date,
       PrefixText(k) \o <<"5", "Y", "E", "A", "R", ",">> \o v5,
       PrefixText(k) \o <<"1", "0", "Y", "E", "A", "R", ",">> \o v10,
       PrefixText(k) \o <<"2", "0", "Y", "E", "A", "R", ",">> \o v20,
       PrefixText(k) \o <<"3", "0", "Y", "E", "A", "R", ",">> \o v30 >>

\* the block of a complete rate set
BlockOfRates(rates) ==
    Block(rates.rt, rates.date, DecimalStr(rates.r5y), DecimalStr(rates.r10y),
          DecimalStr(rates.r20y), DecimalStr(rates.r30y))

\* what main is due to print for feed k once both retrievals returned
Due(k) == IF ReturnedRates(k) THEN BlockOfRates(Result(k)) ELSE <<>>

StartsWith(s, p) == Len(s) >= Len(p) /\ SubSeq(s, 1, Len(p)) = p
Headers == {i \in 1..Len(stdout) : stdout[i] = <<"N", "A", "M", "E", ",", "V", "A", "L", "U", "E">>}

\* main has ended, normally or in an exception
Ended == pc = "done" \/ Failed

----------------------------------------------------------------------------
\* C2 as stated: in every run of main, standard output holds one block per
\* rate set that was retrieved, at most two.
C2_Original ==
    Ended => /\ Cardinality(Headers) = Cardinality({k \in RatesType : ReturnedRates(k)})
             /\ Cardinality(Headers) <= 2

\* C2 amended: a run in which a retrieval raises prints nothing; standard
\* output never holds more than two blocks nor a line of the real block before
\* a line of the nominal block; and when main runs to its end, standard
\* output is exactly the block of each returned rate set, nominal then real.
C2_Blocks ==
    /\ \A k \in RatesType : Raised(k) => stdout = <<>>
    /\ Cardinality(Headers) <= 2
    /\ \A i, j \in 1..Len(stdout) :
          i < j => ~(StartsWith(stdout[i], <<"T", "C", "_">>) /\ StartsWith(stdout[j], <<"B", "C", "_">>))
    /\ pc = "done" => stdout = Due(NOMINAL) \o Due(REAL)

\* both rate sets retrieved and both blocks out
C2_Witness ==
    /\ pc = "done"
    /\ ReturnedRates(NOMINAL) /\ ReturnedRates(REAL)
    /\ Len(stdout) = 12
    /\ StartsWith(stdout[3], <<"B", "C", "_", "5", "Y", "E", "A", "R", ",">>) /\ StartsWith(stdout[9], <<"T", "C", "_", "5", "Y", "E", "A", "R", ",">>)

\* C3 as stated: a feed whose root has no child with a tag ending in
\* "entry" makes get_rates return None without an error, and main, at its
\* end, has written nothing for that feed and the whole block of the other
\* feed's rate set if there is one.
C3_NoEntryNoBlock ==
    \A k \in RatesType :
        (IsRoot(k) /\ Matching(RootOf(k), <<"e", "n", "t", "r", "y">>) = {}) =>
            /\ ~Raised(k)
            /\ Returned(k) => ReturnedNone(k)
            /\ (Ended /\ ~InGetRates) =>
                  \A other \in RatesType \ {k} :
                      stdout = IF ReturnedRates(other)
                               THEN Block(other,
                                      IF "date" \in DOMAIN Result(other)
                                      THEN Result(other).date ELSE <<>>,
                                      IF "r5y" \in DOMAIN Result(other)
                                      THEN DecimalStr(Result(other).r5y) ELSE <<>>,
                                      IF "r10y" \in DOMAIN Result(other)
                                      THEN DecimalStr(Result(other).r10y) ELSE <<>>,
                                      IF "r20y" \in DOMAIN Result(other)
                                      THEN DecimalStr(Result(other).r20y) ELSE <<>>,
                                      IF "r30y" \in DOMAIN Result(other)
                                      THEN DecimalStr(Result(other).r30y) ELSE <<>>)
                               ELSE <<>>

\* C7 as stated: a transport error, a status outside 2xx and a malformed body
\* each end get_rates in an exception (it returns neither a rate set nor
\* None), and each call issues one request.
C7_FailurePropagates ==
    \A k \in RatesType :
        /\ requests_sent[k] <= 1
        /\ (\/ network[k].raises
            \/ network[k].status_code \notin 200..299
            \/ ~network[k].content.wellformed) => ~Returned(k)

----------------------------------------------------------------------------
(* Extraction and printing, over the properties element a feed serves *)

TenorSuffixes == {<<"5", "Y", "E", "A", "R">>, <<"1", "0", "Y", "E", "A", "R">>, <<"2", "0", "Y", "E", "A", "R">>, <<"3", "0", "Y", "E", "A", "R">>}

\* feed k leads get_rates to a properties element, and which
ServesProperties(k) ==
    /\ IsRoot(k)
    /\ Matching(RootOf(k), <<"e", "n", "t", "r", "y">>) # {}
    /\ LET e == RootOf(k).children[Last(Matching(RootOf(k), <<"e", "n", "t", "r", "y">>))]
       IN  /\ Cardinality(Matching(e, <<"c", "o", "n", "t", "e", "n", "t">>)) = 1
           /\ Cardinality(Matching(e.children[Last(Matching(e, <<"c", "o", "n", "t", "e", "n", "t">>))],
                                   <<"p", "r", "o", "p", "e", "r", "t", "i", "e", "s">>)) = 1
ServedProperties(k) ==
    LET e == RootOf(k).children[Last(Matching(RootOf(k), <<"e", "n", "t", "r", "y">>))]
        c == e.children[Last(Matching(e, <<"c", "o", "n", "t", "e", "n", "t">>))]
    IN  c.children[Last(Matching(c, <<"p", "r", "o", "p", "e", "r", "t", "i", "e", "s">>))]

\* the child of p a value is taken from: the last one with the suffix
Field(p, suffix) == p.children[Last(Matching(p, suffix))]
TextOf(e) == IF "text" \in DOMAIN e THEN e.text ELSE <<>>
Blank(e) == \A i \in 1..Len(TextOf(e)) : TextOf(e)[i] \in Whitespace
ValueText(p, suffix) == DecimalStr(Decimal(TextOf(Field(p, suffix))).value)

\* the printing of feed k's rate set is over
Printed(k) == IF k = NOMINAL THEN pc \in {"print_real", "done"} ELSE pc = "done"
\* the lines it wrote
Written(k) ==
    IF k = NOMINAL \/ ~ReturnedRates(NOMINAL) THEN SubSeq(stdout, 1, 6)
    ELSE SubSeq(stdout, 7, Len(stdout))
\* the printing of feed k's rate set raised
PrintRaised(k) ==
    Failed /\ pc = (IF k = NOMINAL THEN "print_nominal" ELSE "print_real")

\* C1: when the properties element has children with tags ending in DATE,
\* 5YEAR, 10YEAR, 20YEAR and 30YEAR, the Rates built from it for kind K
\* prints exactly the six lines NAME,VALUE / NEW_DATE,<date> / <P>5YEAR,<v5>
\* / <P>10YEAR,<v10> / <P>20YEAR,<v20> / <P>30YEAR,<v30>, <P> being BC_ for
\* NOMINAL and TC_ for REAL, each value taken from the (last) child with that
\* suffix; children with other tags change nothing.
C1_SixLines ==
    \A k \in RatesType :
        (/\ ServesProperties(k)
         /\ \A suffix \in TenorSuffixes \cup {<<"D", "A", "T", "E">>} :
               Matching(ServedProperties(k), suffix) # {}
         /\ ReturnedRates(k)) =>
            /\ ~PrintRaised(k)
            /\ Printed(k) =>
                  LET p == ServedProperties(k)
                  IN  Written(k) = Block(k, strip(TextOf(Field(p, <<"D", "A", "T", "E">>))),
                                         ValueText(p, <<"5", "Y", "E", "A", "R">>), ValueText(p, <<"1", "0", "Y", "E", "A", "R">>),
                                         ValueText(p, <<"2", "0", "Y", "E", "A", "R">>), ValueText(p, <<"3", "0", "Y", "E", "A", "R">>))

\* the real block printed from a properties element that holds the five
\* fields and a child with another tag
C1_Witness ==
    /\ pc = "done" /\ ReturnedRates(REAL) /\ ServesProperties(REAL)
    /\ LET p == ServedProperties(REAL)
       IN  /\ \E i \in 1..Len(p.children) : RouteOf(p.children[i].tag) = "ignored"
           /\ \A suffix \in TenorSuffixes \cup {<<"D", "A", "T", "E">>} : Matching(p, suffix) # {}
    /\ Len(Written(REAL)) = 6
    /\ Written(REAL)[3] = <<"T", "C", "_", "5", "Y", "E", "A", "R", ",", "4", ".", "5", "5">>
    /\ Written(REAL)[6] = <<"T", "C", "_", "3", "0", "Y", "E", "A", "R", ",", "4", ".", "3", "5">>

\* C6 as stated: when a tenor field is absent from the properties element,
\* the rate set built from it still prints its whole block, the line of the
\* absent field carrying an empty value.
C6_BlankTolerated ==
    \A k \in RatesType :
        (/\ ServesProperties(k)
         /\ \E suffix \in TenorSuffixes : Matching(ServedProperties(k), suffix) = {}
         /\ ReturnedRates(k)) =>
            /\ ~PrintRaised(k)
            /\ Printed(k) => Len(Written(k)) = 6

\* the significant digits of a printed value, and the value on a line
Mantissa(value) ==
    IF \E i \in 1..Len(value) : value[i] = "E"
    THEN SubSeq(value, 1, (CHOOSE i \in 1..Len(value) : value[i] = "E") - 1)
    ELSE value
SignificantDigits(value) ==
    Len(StripLeadingZeros(SelectSeq(Mantissa(value), LAMBDA c : c \in Digits)))
ValueOn(line) ==
    LET comma == CHOOSE i \in 1..Len(line) : line[i] = ","
    IN  SubSeq(line, comma + 1, Len(line))

\* C8 as stated: no tenor value on standard output has more than prec
\* significant digits.
C8_SixSignificantDigits ==
    \A k \in RatesType :
        (ReturnedRates(k) /\ Printed(k)) =>
            \A i \in 3..Len(Written(k)) :
                SignificantDigits(ValueOn(Written(k)[i])) <= prec

\* C9: building a Rates from a properties element that has a tenor child
\* without text, or with empty or whitespace-only text, raises, and the
\* exception leaves get_rates without a result; a DATE child without text or
\* with blank text raises nothing and gives the empty string as the date.
C9_BlankTexts ==
    [][(pc = "Rates" /\ ~Failed) =>
         LET tenors == {i \in 1..Len(properties.children) :
                          RouteOf(properties.children[i].tag)
                              \in {"r5y", "r10y", "r20y", "r30y"}}
             dates == Matching(properties, <<"D", "A", "T", "E">>)
         IN  /\ (\E i \in tenors : Blank(properties.children[i])) =>
                    /\ error' = "InvalidOperation"
                    /\ nominal_rates' = nominal_rates /\ real_rates' = real_rates
             /\ (/\ \A i \in tenors : Decimal(TextOf(properties.children[i])).ok
                 /\ dates # {}
                 /\ Blank(properties.children[Last(dates)])) =>
                    /\ error' = NoError
                    /\ (IF rt = NOMINAL THEN nominal_rates' ELSE real_rates').date = <<>>
      ]_vars

\* a whitespace-only tenor text has raised, after a DATE child without text
C9_Witness ==
    /\ pc = "Rates" /\ error = "InvalidOperation" /\ ~Returned(rt)
    /\ \E i, j \in 1..Len(properties.children) :
          /\ i < j
          /\ RouteOf(properties.children[i].tag) = "date"
          /\ "text" \notin DOMAIN properties.children[i]
          /\ RouteOf(properties.children[j].tag) = "r20y"
          /\ TextOf(properties.children[j]) # <<>>
          /\ Blank(properties.children[j])

====
